---- MODULE Spec2Model ----
(***************************************************************************)
(* Model of package change (dgryski/go-change): the change detector        *)
(* Detector.Check and the sliding-window Stream built on it.               *)
(*                                                                         *)
(* float64 values are modelled as exact rationals [num, den] in lowest     *)
(* terms; a division by zero gives NaN (0/0) or an infinity (x/0), as in   *)
(* IEEE-754.  The samples are small integers, for which the sums and the   *)
(* sums of squares of the code are exact in float64.                       *)
(* Confidences are modelled in hundredths (95 stands for 0.95).            *)
(***************************************************************************)
EXTENDS Integers, Sequences, FiniteSets, TLC

VARIABLES
    window,      \* Detector run: the argument of Detector.Check
    detector,    \* Detector{MinSampleSize, MinConfidence}
    welch,       \* the confidence the t-test yields on two samples of >= 2 items
    run,         \* Detector run: the locals of the last Check at its return
    pc,          \* Detector run: "ready" before the call, "done" after it
    windowSize,  \* Stream.windowSize
    blockSize,   \* Stream.blockSize
    data,        \* Stream.data
    items,       \* Stream.items
    buffer,      \* Stream.buffer
    bufidx,      \* Stream.bufidx
    status,      \* "ok", "new_panic" (NewStream panicked), "push_panic"
    pushed,      \* history: the values pushed so far, in push order
    returned,    \* history: per push, whether Push returned a change point
    lastRet,     \* history: what the last Push returned
    checked,     \* history: whether the last Push called Detector.Check, and on what
    origin       \* history: per entry of data, the push it came from (0: placeholder)

vars == <<window, detector, welch, run, pc, windowSize, blockSize, data, items,
          buffer, bufidx, status, pushed, returned, lastRet, checked, origin>>

detVars == <<window, run, pc>>
streamVars == <<windowSize, blockSize, data, items, buffer, bufidx, status,
                pushed, returned, lastRet, checked, origin>>

----------------------------------------------------------------------------
(* Bounds of the model *)

MaxValue == 1
MaxLen == 5
MaxWindow == 4
MaxPushes == 6

Values == 0..MaxValue

(* Confidence levels in hundredths; the t-test yields a value in [0, 1) *)
ConfLevels == {0, 50, 80, 95, 99}
MinConfidences == {0, 80, 95}

----------------------------------------------------------------------------
(* float64 arithmetic *)

RECURSIVE GCD(_, _)
GCD(a, b) == IF b = 0 THEN a ELSE GCD(b, a % b)

Abs(x) == IF x < 0 THEN -x ELSE x

NaN == [num |-> 0, den |-> 0]

IsNaN(x) == x.den = 0 /\ x.num = 0

IsFinite(x) == x.den > 0

Norm(n, d) ==
    LET g == GCD(Abs(n), Abs(d))
        s == IF d < 0 THEN -1 ELSE 1
    IN  IF g = 0 THEN NaN ELSE [num |-> s * (n \div g), den |-> s * (d \div g)]

F(i) == [num |-> i, den |-> 1]

FAdd(x, y) ==
    IF ~IsFinite(x) \/ ~IsFinite(y) THEN NaN
    ELSE LET g == GCD(x.den, y.den)
         IN  Norm(x.num * (y.den \div g) + y.num * (x.den \div g), x.den * (y.den \div g))

FNeg(x) == [num |-> -x.num, den |-> x.den]

FSub(x, y) == FAdd(x, FNeg(y))

FMul(x, y) ==
    IF ~IsFinite(x) \/ ~IsFinite(y) THEN NaN
    ELSE LET g1 == GCD(Abs(x.num), y.den)
             g2 == GCD(Abs(y.num), x.den)
         IN  Norm((x.num \div g1) * (y.num \div g2), (x.den \div g2) * (y.den \div g1))

FDiv(x, y) ==
    IF ~IsFinite(x) \/ ~IsFinite(y) THEN NaN
    ELSE IF y.num = 0
         THEN [num |-> IF x.num > 0 THEN 1 ELSE IF x.num < 0 THEN -1 ELSE 0, den |-> 0]
         ELSE LET s == IF y.num < 0 THEN -1 ELSE 1
              IN  FMul(x, [num |-> s * y.den, den |-> s * y.num])

(* x < y on finite values, by continued fractions so that no product is formed *)
RECURSIVE FinLess(_, _)
FinLess(x, y) ==
    LET qx == x.num \div x.den
        qy == y.num \div y.den
        rx == x.num % x.den
        ry == y.num % y.den
    IN  IF qx # qy THEN qx < qy
        ELSE IF ry = 0 THEN FALSE
        ELSE IF rx = 0 THEN TRUE
        ELSE FinLess([num |-> y.den, den |-> ry], [num |-> x.den, den |-> rx])

(* x <= y in place of x < y *)
FLess_OrEqual(x, y) ==
    IF IsNaN(x) \/ IsNaN(y) THEN FALSE
    ELSE IF ~IsFinite(x) \/ ~IsFinite(y) THEN x = y \/ x.num < y.num
    ELSE x = y \/ FinLess(x, y)

(* the float64 comparison x < y: false when either side is NaN *)
FLess(x, y) ==
    IF IsNaN(x) \/ IsNaN(y) THEN FALSE
    ELSE IF ~IsFinite(x) THEN x.num < 0 /\ ~(~IsFinite(y) /\ y.num < 0)
    ELSE IF ~IsFinite(y) THEN y.num > 0
    ELSE FinLess(x, y)

----------------------------------------------------------------------------
(* Detector.Check *)

DefaultMinSampleSize == 30

ZeroStats == [mean |-> F(0), variance |-> F(0), n |-> 0]

Nil == [nil |-> TRUE, Index |-> 0, Difference |-> F(0), Confidence |-> 0,
        Before |-> ZeroStats, After |-> ZeroStats]

(* cumsum[i]: the sum of w[1..i] *)
RECURSIVE CumSum(_)
CumSum(w) ==
    IF w = <<>> THEN <<>>
    ELSE LET h == CumSum(SubSeq(w, 1, Len(w) - 1))
         IN  Append(h, (IF h = <<>> THEN 0 ELSE h[Len(h)]) + w[Len(w)])

Squares(w) == [i \in 1..Len(w) |-> w[i] * w[i]]

Last0(s) == IF s = <<>> THEN 0 ELSE s[Len(s)]

(* 0 taken as it is, with no default *)
EffMinSampleSize_NoDefault(d) == d.MinSampleSize

(* minSampleSize := d.MinSampleSize; if 0, DefaultMinSampleSize *)
EffMinSampleSize(d) ==
    IF d.MinSampleSize = 0 THEN DefaultMinSampleSize ELSE d.MinSampleSize

(* the t-test on two samples: no test and confidence 0 when a sample has
   fewer than 2 items; otherwise the confidence of the Student t
   distribution, which is not computed here and is drawn from ConfLevels *)
Welch(before, after, t) ==
    IF before.n < 2 \/ after.n < 2 THEN 0 ELSE t

(* one iteration of the split loop, for split length l *)
SplitStep(acc, l, n, cumsum, cumsumsq) ==
    IF acc.panic \/ l - 1 < 0 \/ l - 1 >= n
    THEN [acc EXCEPT !.panic = TRUE]
    ELSE
    LET lidx  == l            \* cumsum[l - 1] of the code, 1-based here
        sum   == F(Last0(cumsum))
        sumsq == F(Last0(cumsumsq))
        n1    == F(l)
        c     == F(cumsum[lidx])
        csq   == F(cumsumsq[lidx])
        mean1 == FDiv(c, n1)
        n2    == F(n - l)
        sum2  == FSub(sum, c)
        mean2 == FDiv(sum2, n2)
        diff  == FSub(mean1, mean2)
        sb    == FMul(FMul(FDiv(FMul(n1, n2), FAdd(n1, n2)), diff), diff)
        var1  == FDiv(FSub(csq, FDiv(FMul(c, c), n1)), FSub(n1, F(1)))
        var2  == FDiv(FSub(FSub(sumsq, csq), FDiv(FMul(sum2, sum2), n2)), FSub(n2, F(1)))
    IN  IF FLess(acc.maxsb, sb)
        THEN [acc EXCEPT !.maxsb = sb, !.maxsbIdx = l,
                         !.before = [mean |-> mean1, variance |-> var1, n |-> l],
                         !.after = [mean |-> mean2, variance |-> var2, n |-> n - l],
                         !.splits = @ + 1]
        ELSE [acc EXCEPT !.splits = @ + 1]

(* the loop running one split further *)
LoopCond_OneMore(l, n, minSampleSize) == l <= n - minSampleSize + 1

(* the loop condition l < (n - minSampleSize + 1) *)
LoopCond(l, n, minSampleSize) == l < n - minSampleSize + 1

(* for l := minSampleSize; l < n - minSampleSize + 1; l++ *)
RECURSIVE SplitLoop(_, _, _, _, _, _)
SplitLoop(acc, l, minSampleSize, n, cumsum, cumsumsq) ==
    IF acc.panic \/ ~LoopCond(l, n, minSampleSize) THEN acc
    ELSE SplitLoop(SplitStep(acc, l, n, cumsum, cumsumsq), l + 1,
                   minSampleSize, n, cumsum, cumsumsq)

(* the threshold test as conf < MinConfidence *)
CheckReturn_Strict(d, conf, acc) ==
    IF conf < d.MinConfidence THEN Nil
    ELSE [nil |-> FALSE, Index |-> acc.maxsbIdx,
          Difference |-> FSub(acc.after.mean, acc.before.mean),
          Confidence |-> conf, Before |-> acc.before, After |-> acc.after]

(* Index as the offset of the last element before the change *)
CheckReturn_IndexBefore(d, conf, acc) ==
    IF conf <= d.MinConfidence THEN Nil
    ELSE [nil |-> FALSE, Index |-> acc.maxsbIdx - 1,
          Difference |-> FSub(acc.after.mean, acc.before.mean),
          Confidence |-> conf, Before |-> acc.before, After |-> acc.after]

(* the return statement of Check: nil unless conf > MinConfidence *)
CheckReturn(d, conf, acc) ==
    IF conf <= d.MinConfidence THEN Nil
    ELSE [nil |-> FALSE, Index |-> acc.maxsbIdx,
          Difference |-> FSub(acc.after.mean, acc.before.mean),
          Confidence |-> conf, Before |-> acc.before, After |-> acc.after]

(* Detector.Check with its locals: t is what the t-test would yield *)
CheckRun(d, w, t) ==
    LET n        == Len(w)
        cumsum   == CumSum(w)
        cumsumsq == CumSum(Squares(w))
        acc0     == [maxsb |-> F(0), maxsbIdx |-> 0, before |-> ZeroStats,
                     after |-> ZeroStats, splits |-> 0, panic |-> FALSE]
        acc      == SplitLoop(acc0, EffMinSampleSize(d), EffMinSampleSize(d),
                              n, cumsum, cumsumsq)
        called   == ~acc.panic /\ acc.before.n > 0
        conf     == IF called THEN Welch(acc.before, acc.after, t) ELSE 0
    IN  [panic |-> acc.panic, maxsbIdx |-> acc.maxsbIdx, before |-> acc.before,
         after |-> acc.after, splits |-> acc.splits, welchCalled |-> called,
         conf |-> conf,
         ret |-> IF acc.panic THEN Nil ELSE CheckReturn(d, conf, acc)]

Check(d, w, t) == CheckRun(d, w, t).ret

NoRun == CheckRun([MinSampleSize |-> 1, MinConfidence |-> 0], <<>>, 0)

----------------------------------------------------------------------------
(* The Detector run: one call of Check on a window *)

RECURSIVE SeqsUpTo(_)
SeqsUpTo(k) ==
    IF k = 0 THEN {<<>>}
    ELSE LET S == SeqsUpTo(k - 1)
         IN  S \cup {Append(s, v) : s \in {x \in S : Len(x) = k - 1}, v \in Values}

(* k copies of a followed by n - k copies of b *)
Step(k, n, a, b) == [i \in 1..n |-> IF i <= k THEN a ELSE b]

(* the windows of TestDetectChange *)
TestWindows ==
    { Step(23, 23, 1, 1),
      Step(11, 23, 1, 2),
      <<1, 1, 2, 2, 1, 1, 2, 2, 1, 1, 2, 3, 0, 1, 2, 2, 1, 1, 2, 2, 1, 1, 2>> }

(* windows long enough for the default minimum sample size *)
LongWindows ==
    { Step(k, n, 1, 2) : k \in {DefaultMinSampleSize - 1, DefaultMinSampleSize},
                         n \in {2 * DefaultMinSampleSize - 1, 2 * DefaultMinSampleSize} }
    \cup { Step(10, 20, 1, 2) }

Windows == SeqsUpTo(MaxLen) \cup TestWindows \cup LongWindows

MinSampleSizes == {0, 1, 2, 5, DefaultMinSampleSize - 1, DefaultMinSampleSize}

NotChecked == [invoked |-> FALSE, w |-> <<>>]

StreamIdle ==
    /\ windowSize = 0 /\ blockSize = 0 /\ data = <<>> /\ items = 0
    /\ buffer = <<>> /\ bufidx = 0 /\ status = "none"
    /\ pushed = <<>> /\ returned = <<>> /\ lastRet = Nil
    /\ checked = NotChecked /\ origin = <<>>

InitCheck ==
    /\ window \in Windows
    /\ detector \in [MinSampleSize : MinSampleSizes, MinConfidence : MinConfidences]
    /\ welch \in ConfLevels
    /\ run = NoRun
    /\ pc = "ready"
    /\ StreamIdle

DoCheck ==
    /\ pc = "ready"
    /\ run' = CheckRun(detector, window, welch)
    /\ pc' = "done"
    /\ UNCHANGED <<window, detector, welch>>
    /\ UNCHANGED streamVars

NextCheck == DoCheck

SpecCheck == InitCheck /\ [][NextCheck]_vars

----------------------------------------------------------------------------
(* Stream *)

(* the values pushed to the stream *)
StreamItems == {0, 1}

StreamMinSampleSizes == {1, 2}
StreamMinConfidences == {0, 80}

Zeros(k) == [i \in 1..k |-> 0]

(* copy(dst[off:], src): overwrites min(len(dst) - off, len(src)) entries *)
Copy(dst, off, src) ==
    [i \in 1..Len(dst) |->
        IF i > off /\ i - off <= Len(src) THEN src[i - off] ELSE dst[i]]

(* NewStream(windowSize, minSample, blockSize, confidence): it validates
   nothing and returns no error; make panics on a negative length *)
NewStream(ws, minSample, bs, confidence) ==
    /\ windowSize = ws
    /\ blockSize = bs
    /\ detector = [MinSampleSize |-> minSample, MinConfidence |-> confidence]
    /\ status = IF ws < 0 \/ bs < 0 THEN "new_panic" ELSE "ok"
    /\ data = IF ws < 0 \/ bs < 0 THEN <<>> ELSE Zeros(ws)
    /\ buffer = IF ws < 0 \/ bs < 0 THEN <<>> ELSE Zeros(bs)
    /\ items = 0
    /\ bufidx = 0

InitStream ==
    /\ \E ws \in -1..MaxWindow, bs \in -1..MaxWindow,
          minSample \in StreamMinSampleSizes, confidence \in StreamMinConfidences :
            NewStream(ws, minSample, bs, confidence)
    /\ welch = 0
    /\ window = <<>> /\ run = NoRun /\ pc = "stream"
    /\ pushed = <<>> /\ returned = <<>> /\ lastRet = Nil /\ checked = NotChecked
    /\ origin = Zeros(Len(data))

(* s.buffer[s.bufidx] = item panics: the buffer is empty (blockSize 0) *)
PushPanicStore(item) ==
    /\ status = "ok"
    /\ items < MaxPushes
    /\ ~(bufidx < Len(buffer))
    /\ status' = "push_panic"
    /\ UNCHANGED <<window, detector, welch, run, pc, windowSize, blockSize, data,
                   items, buffer, bufidx, pushed, returned, lastRet, checked, origin>>

(* the block fills and s.data[s.blockSize:] panics: blockSize > windowSize *)
PushPanicSlice(item) ==
    /\ status = "ok"
    /\ items < MaxPushes
    /\ bufidx < Len(buffer)
    /\ ~(bufidx + 1 < blockSize)
    /\ blockSize > Len(data)
    /\ buffer' = [buffer EXCEPT ![bufidx + 1] = item]
    /\ bufidx' = bufidx + 1
    /\ items' = items + 1
    /\ status' = "push_panic"
    /\ pushed' = Append(pushed, item)
    /\ UNCHANGED <<window, detector, welch, run, pc, windowSize, blockSize, data,
                   returned, lastRet, checked, origin>>

(* the item also written to the tail of the window *)
PushBuffer_WritesWindow(item) ==
    /\ status = "ok"
    /\ items < MaxPushes
    /\ bufidx < Len(buffer)
    /\ bufidx + 1 < blockSize
    /\ buffer' = [buffer EXCEPT ![bufidx + 1] = item]
    /\ bufidx' = bufidx + 1
    /\ items' = items + 1
    /\ data' = Copy(data, Len(data) - 1, <<item>>)
    /\ pushed' = Append(pushed, item)
    /\ returned' = Append(returned, FALSE)
    /\ lastRet' = Nil
    /\ checked' = NotChecked
    /\ UNCHANGED <<window, detector, welch, run, pc, windowSize, blockSize,
                   status, origin>>

(* the block is not full yet: return nil *)
PushBuffer(item) ==
    /\ status = "ok"
    /\ items < MaxPushes
    /\ bufidx < Len(buffer)
    /\ bufidx + 1 < blockSize
    /\ buffer' = [buffer EXCEPT ![bufidx + 1] = item]
    /\ bufidx' = bufidx + 1
    /\ items' = items + 1
    /\ pushed' = Append(pushed, item)
    /\ returned' = Append(returned, FALSE)
    /\ lastRet' = Nil
    /\ checked' = NotChecked
    /\ UNCHANGED <<window, detector, welch, run, pc, windowSize, blockSize, data,
                   status, origin>>

(* the old values shifted by one position instead of blockSize *)
Shift_ByOne(d, bs, ws, buf) == Copy(Copy(d, 0, SubSeq(d, 2, Len(d))), ws - bs, buf)

(* the block appended without the shift of the old values *)
Shift_NoShift(d, bs, ws, buf) == Copy(d, ws - bs, buf)

(* the data window after the two copies of Push *)
Shift(d, bs, ws, buf) == Copy(Copy(d, 0, SubSeq(d, bs + 1, Len(d))), ws - bs, buf)

(* the detector called while the window is still filling *)
PushFill_NoGuard(item) ==
    /\ status = "ok"
    /\ items < MaxPushes
    /\ bufidx < Len(buffer)
    /\ ~(bufidx + 1 < blockSize)
    /\ ~(blockSize > Len(data))
    /\ items + 1 < windowSize
    /\ buffer' = [buffer EXCEPT ![bufidx + 1] = item]
    /\ items' = items + 1
    /\ data' = Shift(data, blockSize, windowSize, buffer')
    /\ origin' = Shift(origin, blockSize, windowSize,
                       [i \in 1..blockSize |-> items' - blockSize + i])
    /\ bufidx' = 0
    /\ pushed' = Append(pushed, item)
    /\ \E t \in ConfLevels :
          /\ lastRet' = Check(detector, data', t)
          /\ welch' = t
    /\ returned' = Append(returned, ~lastRet'.nil)
    /\ checked' = [invoked |-> TRUE, w |-> data']
    /\ UNCHANGED <<window, detector, run, pc, windowSize, blockSize, status>>

(* the block fills while items < windowSize: shift the window, return nil *)
PushFill(item) ==
    /\ status = "ok"
    /\ items < MaxPushes
    /\ bufidx < Len(buffer)
    /\ ~(bufidx + 1 < blockSize)
    /\ ~(blockSize > Len(data))
    /\ items + 1 < windowSize
    /\ buffer' = [buffer EXCEPT ![bufidx + 1] = item]
    /\ items' = items + 1
    /\ data' = Shift(data, blockSize, windowSize, buffer')
    /\ origin' = Shift(origin, blockSize, windowSize,
                       [i \in 1..blockSize |-> items' - blockSize + i])
    /\ bufidx' = 0
    /\ pushed' = Append(pushed, item)
    /\ returned' = Append(returned, FALSE)
    /\ lastRet' = Nil
    /\ checked' = NotChecked
    /\ UNCHANGED <<window, detector, welch, run, pc, windowSize, blockSize, status>>

(* the block fills and items >= windowSize: shift the window and return
   what Detector.Check returns on it; t is what the t-test yields *)
PushCheck(item, t) ==
    /\ status = "ok"
    /\ items < MaxPushes
    /\ bufidx < Len(buffer)
    /\ ~(bufidx + 1 < blockSize)
    /\ ~(blockSize > Len(data))
    /\ ~(items + 1 < windowSize)
    /\ buffer' = [buffer EXCEPT ![bufidx + 1] = item]
    /\ items' = items + 1
    /\ data' = Shift(data, blockSize, windowSize, buffer')
    /\ origin' = Shift(origin, blockSize, windowSize,
                       [i \in 1..blockSize |-> items' - blockSize + i])
    /\ bufidx' = 0
    /\ pushed' = Append(pushed, item)
    /\ lastRet' = Check(detector, data', t)
    /\ returned' = Append(returned, ~lastRet'.nil)
    /\ checked' = [invoked |-> TRUE, w |-> data']
    /\ welch' = t
    /\ UNCHANGED <<window, detector, run, pc, windowSize, blockSize, status>>

Push(item) ==
    \/ PushPanicStore(item)
    \/ PushPanicSlice(item)
    \/ PushBuffer(item)
    \/ PushFill(item)
    \/ \E t \in ConfLevels : PushCheck(item, t)

Next == \E item \in StreamItems : Push(item)

Spec == InitStream /\ [][Next]_vars

----------------------------------------------------------------------------
(* Properties of Stream, checked under Spec *)

ValidConfig == 1 <= blockSize /\ blockSize <= windowSize

InvalidConfig == blockSize > windowSize \/ windowSize <= 0 \/ blockSize <= 0

(* C1: with 1 <= blockSize <= windowSize, none of the first windowSize - 1
   pushes returns a change point, and no two pushes less than blockSize
   apart both return one *)
C1_PushRate ==
    ValidConfig =>
        /\ \A i \in 1..Len(returned) : i < windowSize => ~returned[i]
        /\ \A i, j \in 1..Len(returned) :
              (i < j /\ j < i + blockSize) => ~(returned[i] /\ returned[j])

C1_Witness ==
    /\ ValidConfig
    /\ blockSize >= 2
    /\ \E i \in 1..Len(returned) :
          /\ i + blockSize <= Len(returned)
          /\ returned[i]
          /\ returned[i + blockSize]

(* C5: an invalid configuration (blockSize > windowSize, or a size that is
   not positive) fails in NewStream, and no Push ever fails *)
C5_MisconfigAtSetup ==
    /\ InvalidConfig => status = "new_panic"
    /\ status # "push_panic"

(* C6 as stated: once windowSize values are pushed, no entry of the window
   is a placeholder *)
C6_PopulatedAfterWindowSize ==
    (ValidConfig /\ items >= windowSize) =>
        \A i \in 1..Len(data) : origin[i] # 0

(* C6 as amended: once a block has completed with at least windowSize values
   pushed, the window holds the windowSize values pushed last before that
   block boundary, in push order *)
C6_PopulatedAfterBlock ==
    (ValidConfig /\ items - bufidx >= windowSize) =>
        /\ Len(data) = windowSize
        /\ \A i \in 1..Len(data) :
              /\ origin[i] = items - bufidx - windowSize + i
              /\ data[i] = pushed[origin[i]]

C6_Witness ==
    /\ ValidConfig
    /\ windowSize % blockSize # 0
    /\ items - bufidx >= windowSize
    /\ bufidx > 0
    /\ \E i \in 1..Len(data) : data[i] # 0

----------------------------------------------------------------------------
(* Properties of Detector.Check, checked under SpecCheck *)

Done == pc = "done"

m == EffMinSampleSize(detector)

(* w is k copies of one value followed by copies of another value *)
IsStep(w, k) ==
    /\ k \in 1..(Len(w) - 1)
    /\ w[1] # w[Len(w)]
    /\ \A i \in 1..Len(w) : w[i] = IF i <= k THEN w[1] ELSE w[Len(w)]

IsConstant(w) == \A i, j \in 1..Len(w) : w[i] = w[j]

StepInRange(k) == IsStep(window, k) /\ k >= m /\ Len(window) - k >= m

(* C2 as stated: on a step window with both runs of at least minSampleSize
   values, Check returns a change point whose Index is the length of the
   first run *)
C2_StepReturnsIndexK ==
    Done => \A k \in 1..Len(window) :
        StepInRange(k) => (~run.ret.nil /\ run.ret.Index = k)

(* C2 as amended: on such a window the winning split is the length k of the
   first run, and Check returns a change point exactly when the confidence
   of the t-test on that split exceeds minConfidence; its Index is then k *)
C2_StepSplitAtK ==
    Done => \A k \in 1..Len(window) :
        StepInRange(k) =>
            /\ run.maxsbIdx = k
            /\ run.before.n = k
            /\ run.after.n = Len(window) - k
            /\ ~run.ret.nil <=> run.conf > detector.MinConfidence
            /\ ~run.ret.nil => run.ret.Index = k

C2_Witness ==
    /\ Done
    /\ window = Step(10, 20, 1, 2)
    /\ detector = [MinSampleSize |-> 5, MinConfidence |-> 80]
    /\ ~run.ret.nil
    /\ run.ret.Index = 10
    /\ run.ret.Difference = F(1)

(* C3: on a step window whose first run has k values, when the t-test gives
   at least 0.95, Check returns a change point with that confidence whose
   Index is k - 1, the last element before the change *)
C3_IndexBeforeChange ==
    Done => \A k \in 2..Len(window) :
        (StepInRange(k) /\ Len(window) - k >= 2 /\ welch >= 95) =>
            /\ ~run.ret.nil
            /\ run.ret.Confidence >= 95
            /\ run.ret.Index = k - 1

(* C4: when a side of the winning split has fewer than 2 samples, Check
   performs no t-test, the confidence is 0 and no change point is returned *)
C4_NoTestBelowTwoSamples ==
    (Done /\ run.before.n > 0 /\ (run.before.n < 2 \/ run.after.n < 2)) =>
        /\ ~run.welchCalled
        /\ run.conf = 0
        /\ run.ret.nil

(* C7: on a window whose values are all equal Check returns no change
   point, for every minSampleSize and minConfidence *)
C7_ConstantWindowNoChange ==
    (Done /\ IsConstant(window)) => (run.ret.nil /\ ~run.panic)

C7_Witness ==
    /\ Done
    /\ window = Step(23, 23, 1, 1)
    /\ detector = [MinSampleSize |-> 5, MinConfidence |-> 0]
    /\ welch = 99
    /\ run.splits = 14
    /\ run.ret.nil

(* C8: on a window shorter than 2 * minSampleSize Check examines no split,
   returns no change point and does not fail *)
C8_ShortWindowNoChange ==
    (Done /\ Len(window) < 2 * m) =>
        /\ run.splits = 0
        /\ run.ret.nil
        /\ ~run.panic

C8_Witness ==
    /\ Done
    /\ Len(window) = 2 * m - 1
    /\ ~IsConstant(window)
    /\ welch = 99
    /\ detector.MinConfidence = 0
    /\ run.ret.nil

(* C9: Check returns a change point exactly when a winning split exists and
   its confidence is strictly greater than minConfidence *)
C9_ReturnIffAboveThreshold ==
    Done =>
        /\ ~run.ret.nil <=> (run.before.n > 0 /\ run.conf > detector.MinConfidence)
        /\ ~run.ret.nil => run.ret.Confidence = run.conf

C9_Witness ==
    /\ Done
    /\ run.before.n > 0
    /\ run.conf = detector.MinConfidence
    /\ run.conf > 0
    /\ run.ret.nil

(* C10: a Detector with MinSampleSize 0 does on every window what a Detector
   with MinSampleSize 30 does *)
C10_ZeroIsDefault ==
    (Done /\ detector.MinSampleSize = 0) =>
        run = CheckRun([detector EXCEPT !.MinSampleSize = 30], window, welch)

C10_Witness ==
    /\ Done
    /\ detector.MinSampleSize = 0
    /\ Len(window) = 60
    /\ run.splits = 1
    /\ ~run.ret.nil
    /\ run.ret.Index = 30

(* the sum of w[a..b] *)
RECURSIVE SumSeq(_, _, _)
SumSeq(w, a, b) == IF a > b THEN 0 ELSE w[a] + SumSeq(w, a + 1, b)

MeanOf(w, a, b) == FDiv(F(SumSeq(w, a, b)), F(b - a + 1))

(* the between-class scatter of the split of w into w[1..l] and the rest:
   (l * (n - l) / n) * (mean(w[1..l]) - mean(w[l+1..n]))^2 *)
SbOf(w, l) ==
    LET n == Len(w)
        d == FSub(MeanOf(w, 1, l), MeanOf(w, l + 1, n))
    IN  FMul(FDiv(F(l * (n - l)), F(n)), FMul(d, d))

SplitRange == m..(Len(window) - m)

(* the scatters of the splits lo..hi of w, in that order *)
RECURSIVE SbList(_, _, _)
SbList(w, lo, hi) ==
    IF lo > hi THEN <<>> ELSE <<SbOf(w, lo)>> \o SbList(w, lo + 1, hi)

(* the splits of the range whose scatter is positive and is the maximum *)
BestSplits ==
    LET sb == SbList(window, m, Len(window) - m)
    IN  {l \in SplitRange :
            /\ FLess(F(0), sb[l - m + 1])
            /\ \A k \in SplitRange : ~FLess(sb[l - m + 1], sb[k - m + 1])}

(* C11: the split chosen by Check is the smallest split length of
   [minSampleSize, n - minSampleSize] whose between-class scatter is the
   maximum over that range and is positive; no split is chosen when no
   split has a positive scatter *)
C11_EarliestMaxScatter ==
    Done =>
        LET best == BestSplits
        IN  IF best = {}
        THEN run.before.n = 0 /\ run.maxsbIdx = 0 /\ ~run.welchCalled
        ELSE /\ run.maxsbIdx \in best
             /\ \A l \in best : run.maxsbIdx <= l
             /\ run.before.n = run.maxsbIdx
             /\ run.after.n = Len(window) - run.maxsbIdx
             /\ run.before.mean = MeanOf(window, 1, run.maxsbIdx)
             /\ run.after.mean = MeanOf(window, run.maxsbIdx + 1, Len(window))

C11_Witness ==
    /\ Done
    /\ Cardinality(BestSplits) >= 2
    /\ \E l \in BestSplits : run.maxsbIdx < l
    /\ ~IsConstant(window)
    /\ run.splits >= 3

----------------------------------------------------------------------------
(* Properties of Stream.Push, step by step, checked under Spec *)

(* a Push that returned: the step counts one more item *)
Pushed == status = "ok" /\ status' = "ok" /\ items' = items + 1

(* the last k values pushed, in push order *)
LastPushed(k) == SubSeq(pushed, Len(pushed) - k + 1, Len(pushed))

(* C12: the Push that fills the block buffer makes the window the old window
   without its oldest blockSize values, followed by the blockSize values of
   the block in push order, and resets the buffer index to 0, also while
   fewer than windowSize items have been seen *)
C12_BlockShift ==
    [][(Pushed /\ ValidConfig /\ bufidx + 1 = blockSize) =>
          /\ data' = SubSeq(data, blockSize + 1, windowSize)
                     \o SubSeq(pushed', items' - blockSize + 1, items')
          /\ buffer' = SubSeq(pushed', items' - blockSize + 1, items')
          /\ bufidx' = 0]_vars

C12_Witness ==
    /\ ValidConfig
    /\ status = "ok"
    /\ blockSize >= 2
    /\ blockSize < windowSize
    /\ bufidx = 0
    /\ items >= blockSize
    /\ items < windowSize
    /\ data = SubSeq(Zeros(windowSize) \o pushed, items + 1, items + windowSize)
    /\ \A i \in 1..items : pushed[i] = 1

(* C13: a Push that does not fill the block buffer returns no change point,
   does not call the detector and leaves the window unchanged; it changes
   only the block buffer, its index and the item count *)
C13_MidBlockFrame ==
    [][(Pushed /\ bufidx + 1 < blockSize) =>
          /\ lastRet' = Nil
          /\ ~checked'.invoked
          /\ data' = data
          /\ windowSize' = windowSize
          /\ blockSize' = blockSize
          /\ detector' = detector
          /\ bufidx' = bufidx + 1
          /\ buffer' = [buffer EXCEPT ![bufidx + 1] = pushed'[items']]]_vars

C13_Witness ==
    /\ status = "ok"
    /\ ValidConfig
    /\ bufidx > 0
    /\ items > windowSize
    /\ buffer[bufidx] = 1
    /\ lastRet = Nil
    /\ ~checked.invoked
    /\ \E i \in 1..Len(returned) : returned[i]

(* C14: with 1 <= blockSize <= windowSize the detector is called exactly on
   the pushes whose count is a multiple of blockSize and at least
   windowSize; the window it is given is the last windowSize values pushed,
   in push order, and Push returns what Check returns on them *)
C14_CheckOnLastWindow ==
    (ValidConfig /\ status = "ok" /\ items > 0) =>
        /\ checked.invoked <=> (items % blockSize = 0 /\ items >= windowSize)
        /\ checked.invoked =>
              /\ checked.w = LastPushed(windowSize)
              /\ lastRet = Check(detector, LastPushed(windowSize), welch)
        /\ ~checked.invoked => lastRet = Nil
        /\ returned[items] = ~lastRet.nil

C14_Witness ==
    /\ ValidConfig
    /\ status = "ok"
    /\ windowSize % blockSize # 0
    /\ items > windowSize
    /\ checked.invoked
    /\ ~lastRet.nil
    /\ lastRet.Index = 2

====
